---- MODULE Spec2Model ----
(***************************************************************************)
(* A model of ppdet/modeling/post_process.py: the numpy NMS functions      *)
(* (nms, multiclass_nms), BBoxPostProcess (get_pred, get_origin_shape),    *)
(* DETRPostProcess.__call__ and MaskPostProcess.__call__ / paste_mask.     *)
(*                                                                         *)
(* Tensors are sequences (1-based; the text says "index k" for the         *)
(* source's k-1 where it matters).  Real numbers are exact rationals       *)
(* <<n, d>> in lowest terms with d > 0; every input of the model is a      *)
(* small integer or a ratio of small integers, for which the float32 /     *)
(* float64 arithmetic of the source agrees with the exact one on every     *)
(* comparison the code makes.                                              *)
(***************************************************************************)
EXTENDS Integers, Sequences, FiniteSets, TLC

VARIABLES
    \* ---- nms / multiclass_nms (module-level functions) ----
    bboxs,            \* input table, rows <<label, score, x1, y1, x2, y2>>
    nms_op,           \* "none" | "nms" | "multiclass_nms": the call made
    match_threshold,  \* the call's threshold (a rational)
    match_metric,     \* the call's metric string
    num_classes,      \* multiclass_nms's num_classes (0 for a plain nms call)
    nms_raised,       \* TRUE when the call ended in ValueError
    keep,             \* nms: np.where(suppressed == 0)[0], as 1-based indices
    dets_out,         \* nms: the returned table, rows <<score, x1, y1, x2, y2>>
    final_boxes,      \* multiclass_nms: list of per-class tables
    \* ---- one BBoxPostProcess object ----
    export_onnx,            \* self.export_onnx
    export_eb,              \* self.export_eb
    has_origin_shape_list,  \* whether self.origin_shape_list was ever assigned
    origin_shape_list,      \* self.origin_shape_list, rows <<h, w>>
    pred_op,        \* "none" | "get_pred" | "get_origin_shape": the last call
    pred_in,        \* the arguments of the most recent get_pred call
    pred_ret,       \* what that call returned: [bboxes, pred_result, bbox_num]
    origin_ret,     \* what the last get_origin_shape call returned
    origin_raised,  \* TRUE when that call ended in AttributeError
    \* ---- one DETRPostProcess object ----
    detr_cfg,       \* the attributes __init__ sets
    detr_op,        \* "none" | "call"
    detr_in,        \* the arguments of the __call__ made
    detr_ret,       \* [raised, bbox_pred, bbox_num] of that call
    \* ---- one MaskPostProcess object ----
    mask_cfg,       \* the attributes __init__ sets
    mask_op,        \* "none" | "call"
    mask_in,        \* the arguments of the __call__ made
    mask_ret        \* pred_result of that call: per mask, rows of pixels

nmsVars == <<bboxs, nms_op, match_threshold, match_metric, num_classes,
             nms_raised, keep, dets_out, final_boxes>>

predVars == <<export_onnx, export_eb, has_origin_shape_list,
              origin_shape_list, pred_op, pred_in, pred_ret, origin_ret,
              origin_raised>>

detrVars == <<detr_cfg, detr_op, detr_in, detr_ret>>

maskVars == <<mask_cfg, mask_op, mask_in, mask_ret>>

vars == <<nmsVars, predVars, detrVars, maskVars>>

(* The state of a component no call has touched.                          *)

NoArgs == [bboxes |-> <<>>, bbox_num |-> <<>>, im_shape |-> <<>>,
           scale_factor |-> <<>>]
NoRet == [bboxes |-> <<>>, pred_result |-> <<>>, bbox_num |-> <<>>]

NoDetrRet == [raised |-> FALSE, bbox_pred |-> <<>>, bbox_num |-> <<>>]
NoDetrArgs == [logits |-> <<>>, bboxes |-> <<>>, im_shape |-> <<>>,
               scale_factor |-> <<>>, pad_shape |-> <<>>]
NoDetrCfg == [num_classes |-> 0, num_top_queries |-> 0, dual_queries |-> FALSE,
              dual_groups |-> 0, use_focal_loss |-> FALSE,
              bbox_decode_type |-> ""]

NoMaskArgs == [mask_out |-> <<>>, bboxes |-> <<>>, bbox_num |-> <<>>,
               origin_shape |-> <<>>]

IdleMask ==
    /\ mask_cfg = [binary_thresh |-> <<1, 2>>, export_onnx |-> FALSE]
    /\ mask_op = "none"
    /\ mask_in = NoMaskArgs
    /\ mask_ret = <<>>

IdleDetr ==
    /\ detr_cfg = NoDetrCfg
    /\ detr_op = "none"
    /\ detr_in = NoDetrArgs
    /\ detr_ret = NoDetrRet

IdleNms ==
    /\ bboxs = <<>>
    /\ nms_op = "none"
    /\ match_threshold = <<0, 1>>
    /\ match_metric = ""
    /\ num_classes = 0
    /\ nms_raised = FALSE
    /\ keep = <<>>
    /\ dets_out = <<>>
    /\ final_boxes = <<>>

IdlePred ==
    /\ export_onnx = FALSE
    /\ export_eb = FALSE
    /\ has_origin_shape_list = FALSE
    /\ origin_shape_list = <<>>
    /\ pred_op = "none"
    /\ pred_in = NoArgs
    /\ pred_ret = NoRet
    /\ origin_ret = <<>>
    /\ origin_raised = FALSE


----------------------------------------------------------------------------
(* Exact rational arithmetic.                                              *)

Abs(x) == IF x < 0 THEN -x ELSE x

RECURSIVE Gcd(_, _)
Gcd(a, b) == IF b = 0 THEN a ELSE Gcd(b, a % b)

\* n/d in lowest terms, d > 0.
Rat(n, d) ==
    LET s == IF d < 0 THEN -1 ELSE 1
        g == Gcd(Abs(n), Abs(d))
    IN  <<(s * n) \div g, (s * d) \div g>>

RInt(k) == <<k, 1>>
RAdd(a, b) == Rat(a[1] * b[2] + b[1] * a[2], a[2] * b[2])
RSub(a, b) == Rat(a[1] * b[2] - b[1] * a[2], a[2] * b[2])
RMul(a, b) == Rat(a[1] * b[1], a[2] * b[2])
RDiv(a, b) == Rat(a[1] * b[2], a[2] * b[1])
RLe(a, b) == a[1] * b[2] <= b[1] * a[2]
RLt(a, b) == a[1] * b[2] < b[1] * a[2]
RGe(a, b) == RLe(b, a)
RGt(a, b) == RLt(b, a)
RMin(a, b) == IF RLe(a, b) THEN a ELSE b
RMax(a, b) == IF RLe(a, b) THEN b ELSE a
\* floor: \div of Integers rounds towards minus infinity.
RFloor(a) == a[1] \div a[2]

Max(a, b) == IF a >= b THEN a ELSE b
Min(a, b) == IF a <= b THEN a ELSE b

----------------------------------------------------------------------------
(* BBoxPostProcess.get_pred and get_origin_shape.                          *)
(* A row of bboxes is <<label, score, x1, y1, x2, y2>>: label and score    *)
(* integers, the coordinates rationals.  im_shape rows are <<h, w>>,       *)
(* scale_factor rows <<scale_y, scale_x>>, all rationals.                  *)

\* Largest number of detections of one image in a get_pred call.
MaxCount == 2
\* Batch sizes (numbers of images) of a get_pred call.
BatchSizes == {1, 2}

R0 == <<0, 1>>
R1 == <<1, 1>>

\* A box inside every image, one that sticks out on all sides, and one with
\* x2 < x1 that lies right of every image.
PredBoxes == { <<RInt(1), RInt(1), RInt(3), RInt(2)>>,
               <<RInt(-2), RInt(1), RInt(9), RInt(9)>>,
               <<RInt(7), RInt(3), RInt(5), RInt(3)>> }
PredRows == { <<1, 1>> \o b : b \in PredBoxes }
\* Per image <<im_shape, scale_factor>>: origin shapes (4,6), (2,12), (2,3).
ImMetas == { << <<RInt(4), RInt(6)>>, <<RInt(1), RInt(1)>> >>,
             << <<RInt(4), RInt(6)>>, <<RInt(2), Rat(1, 2)>> >>,
             << <<RInt(3), RInt(5)>>, <<RInt(2), RInt(2)>> >> }

\* The concatenation of a sequence of sequences.
RECURSIVE Concat(_)
Concat(ss) == IF ss = <<>> THEN <<>> ELSE Head(ss) \o Concat(Tail(ss))

RECURSIVE Sum(_)
Sum(ns) == IF ns = <<>> THEN 0 ELSE Head(ns) + Sum(Tail(ns))

\* The arguments of a call: per image its rows (a table) and its meta.
PredImages(maxCount) ==
    { [rows |-> r, meta |-> m] :
        r \in UNION { [1..n -> PredRows] : n \in 0..maxCount }, m \in ImMetas }

\* get_pred's arguments for a batch of images: the flat table, the counts,
\* im_shape and scale_factor.
PredArgs(imgs) ==
    [bboxes |-> Concat([i \in 1..Len(imgs) |-> imgs[i].rows]),
     bbox_num |-> [i \in 1..Len(imgs) |-> Len(imgs[i].rows)],
     im_shape |-> [i \in 1..Len(imgs) |-> imgs[i].meta[1]],
     scale_factor |-> [i \in 1..Len(imgs) |-> imgs[i].meta[2]]]

PredInputs(maxCount) ==
    { PredArgs(imgs) :
        imgs \in UNION { [1..b -> PredImages(maxCount)] : b \in BatchSizes } }

\* fake_bboxes: the one-row table [[0., 0.0, 0.0, 0.0, 1.0, 1.0]].
FakeBboxesScoreOne == << <<0, 1, R0, R0, R0, R0>> >>
fake_bboxes == << <<0, 0, R0, R0, R1, R1>> >>
fake_bbox_num == 1

\* The per-image loop "add fake bbox when output is empty for each batch",
\* from image i on with id_start rows consumed: <<bboxes_list, bbox_num_list>>.
RECURSIVE PackFrom(_, _, _, _)
PackFrom(bboxes, bbox_num, i, id_start) ==
    IF i > Len(bbox_num) THEN << <<>>, <<>> >>
    ELSE IF bbox_num[i] = 0
    THEN LET rest == PackFrom(bboxes, bbox_num, i + 1, id_start)
         IN  << <<fake_bboxes>> \o rest[1], <<fake_bbox_num>> \o rest[2] >>
    ELSE LET rest == PackFrom(bboxes, bbox_num, i + 1, id_start + bbox_num[i])
         IN  << <<SubSeq(bboxes, id_start + 1, id_start + bbox_num[i])>>
                   \o rest[1],
                <<bbox_num[i]>> \o rest[2] >>

\* The packed <<bboxes, bbox_num>>: paddle.concat of the two lists.
PackDropEmpty(bboxes, bbox_num) ==
    << bboxes, SelectSeq(bbox_num, LAMBDA n : n > 0) >>
Pack(bboxes, bbox_num) ==
    LET r == PackFrom(bboxes, bbox_num, 1, 0)
    IN  << Concat(r[1]), r[2] >>

\* origin_shape = paddle.floor(im_shape / scale_factor + 0.5), rows <<h, w>>.
OriginShape(im_shape, scale_factor) ==
    [i \in 1..Len(im_shape) |->
        << RInt(RFloor(RAdd(RDiv(im_shape[i][1], scale_factor[i][1]),
                            Rat(1, 2)))),
           RInt(RFloor(RAdd(RDiv(im_shape[i][2], scale_factor[i][2]),
                            Rat(1, 2)))) >>]

\* paddle.expand(row, [n, k]): n copies of the row.
Expand(row, n) == [k \in 1..n |-> row]

\* scale = [scale_x, scale_y, scale_x, scale_y] of image i.
ScaleRow(scale_factor, i) ==
    LET scale_y == scale_factor[i][1]
        scale_x == scale_factor[i][2]
    IN  <<scale_x, scale_y, scale_x, scale_y>>

\* The general path's loop over the images of the packed bbox_num:
\* <<origin_shape_list, scale_factor_list>>.
ShapeListsGeneral(bbox_num, origin_shape, scale_factor) ==
    << Concat([i \in 1..Len(bbox_num) |-> Expand(origin_shape[i], bbox_num[i])]),
       Concat([i \in 1..Len(bbox_num) |->
                  Expand(ScaleRow(scale_factor, i), bbox_num[i])]) >>

\* The export path, "simplify the computation for bs=1": image 0 only.
ShapeListsExportSwapped(bbox_num, origin_shape, scale_factor) ==
    << Expand(<<origin_shape[1][2], origin_shape[1][1]>>, bbox_num[1]),
       Expand(ScaleRow(scale_factor, 1), bbox_num[1]) >>
ShapeListsExport(bbox_num, origin_shape, scale_factor) ==
    << Expand(origin_shape[1], bbox_num[1]),
       Expand(ScaleRow(scale_factor, 1), bbox_num[1]) >>

\* paddle.maximum(paddle.minimum(v, bound), zeros).
ClipNoFloor(v, bound) == RMin(v, bound)
Clip(v, bound) == RMax(RMin(v, bound), R0)

\* nonempty_bbox(pred_bbox, return_mask=True) of ppdet.modeling.bbox_utils:
\* the box has positive width and positive height.
nonempty_bbox(box) == RGt(RSub(box[3], box[1]), R0) /\ RGt(RSub(box[4], box[2]), R0)

\* Lines 152-172: rescale, clip and mark the empty boxes of one row, given
\* its rows of origin_shape_list and scale_factor_list.
RescaleRow(row, origin, scale) ==
    LET origin_h == origin[1]
        origin_w == origin[2]
        x1 == Clip(RDiv(row[3], scale[1]), origin_w)
        y1 == Clip(RDiv(row[4], scale[2]), origin_h)
        x2 == Clip(RDiv(row[5], scale[3]), origin_w)
        y2 == Clip(RDiv(row[6], scale[4]), origin_h)
        pred_bbox == <<x1, y1, x2, y2>>
        pred_label == IF nonempty_bbox(pred_bbox) THEN row[1] ELSE -1
    IN  <<pred_label, row[2]>> \o pred_bbox

\* get_pred past the bypass: [bboxes, pred_result, bbox_num, origin_shape_list].
GetPredPath(in, onnx) ==
    LET packed == IF onnx THEN <<in.bboxes, in.bbox_num>>
                  ELSE Pack(in.bboxes, in.bbox_num)
        bboxes == packed[1]
        bbox_num == packed[2]
        origin_shape == OriginShape(in.im_shape, in.scale_factor)
        lists == IF onnx
                 THEN ShapeListsExport(bbox_num, origin_shape, in.scale_factor)
                 ELSE ShapeListsGeneral(bbox_num, origin_shape, in.scale_factor)
    IN  [bboxes |-> bboxes,
         pred_result |-> [k \in 1..Len(bboxes) |->
                             RescaleRow(bboxes[k], lists[1][k], lists[2][k])],
         bbox_num |-> bbox_num,
         origin_shape_list |-> lists[1]]

\* __init__: the flags are set, origin_shape_list is not.
InitPred ==
    /\ IdleNms
    /\ IdleDetr
    /\ IdleMask
    /\ export_onnx \in BOOLEAN
    /\ export_eb \in BOOLEAN
    /\ has_origin_shape_list = FALSE
    /\ origin_shape_list = <<>>
    /\ pred_op = "none"
    /\ pred_in = NoArgs
    /\ pred_ret = NoRet
    /\ origin_ret = <<>>
    /\ origin_raised = FALSE

\* get_pred(bboxes, bbox_num, im_shape, scale_factor).  The export path is
\* for one image ("Currently only support bs = 1", "simplify the computation
\* for bs=1 when exporting onnx").
GetPred(in) ==
    /\ (export_onnx /\ ~export_eb) => Len(in.bbox_num) = 1
    /\ pred_op' = "get_pred"
    /\ pred_in' = in
    /\ IF export_eb
       THEN /\ pred_ret' = [bboxes |-> in.bboxes, pred_result |-> in.bboxes,
                            bbox_num |-> in.bbox_num]
            /\ UNCHANGED <<has_origin_shape_list, origin_shape_list>>
       ELSE LET r == GetPredPath(in, export_onnx)
            IN  /\ pred_ret' = [bboxes |-> r.bboxes,
                                pred_result |-> r.pred_result,
                                bbox_num |-> r.bbox_num]
                /\ has_origin_shape_list' = TRUE
                /\ origin_shape_list' = r.origin_shape_list
    /\ UNCHANGED <<export_onnx, export_eb, origin_ret, origin_raised, nmsVars,
                   detrVars, maskVars>>

\* get_origin_shape(): self.origin_shape_list, an AttributeError when the
\* attribute was never assigned.
GetOriginShape ==
    /\ pred_op' = "get_origin_shape"
    /\ origin_raised' = ~has_origin_shape_list
    /\ origin_ret' = IF has_origin_shape_list THEN origin_shape_list ELSE <<>>
    /\ UNCHANGED <<export_onnx, export_eb, has_origin_shape_list,
                   origin_shape_list, pred_in, pred_ret, nmsVars,
                   detrVars, maskVars>>

\* One get_pred call on a fresh object, then get_origin_shape.
FirstGetPred ==
    /\ pred_op = "none"
    /\ \E in \in PredInputs(MaxCount) : GetPred(in)

NextPred == FirstGetPred \/ GetOriginShape

SpecPred == InitPred /\ [][NextPred]_vars

\* Any sequence of get_pred and get_origin_shape calls on one object, the
\* arguments drawn from a smaller set: every row the same detection.
MaxSeqCount == 1
SeqRow == <<1, 1, RInt(1), RInt(1), RInt(3), RInt(2)>>
SeqImages ==
    { [rows |-> [k \in 1..n |-> SeqRow], meta |-> m] :
        n \in 0..MaxSeqCount, m \in ImMetas }
SeqInputs ==
    { PredArgs(imgs) : imgs \in UNION { [1..b -> SeqImages] : b \in BatchSizes } }

AnyGetPred == \E in \in SeqInputs : GetPred(in)

NextCalls == AnyGetPred \/ GetOriginShape

SpecCalls == InitPred /\ [][NextCalls]_vars

----------------------------------------------------------------------------
(* DETRPostProcess.__call__, for an object built with with_mask = False    *)
(* (the default): masks is not read.  logits[b][q] is the sequence of the  *)
(* query's class logits (integers), bboxes[b][q] its <<cx, cy, w, h>>.     *)
(* The exponentials of sigmoid and softmax are taken to base 2, which      *)
(* keeps the scores rational and in the order the source computes.         *)

\* Largest num_top_queries and largest number of queries per image.
MaxTopQueries == 3
MaxQueries == 3
DetrBatchSizes == {1, 2}
DetrNumClasses == {1, 2}
DetrDualGroups == {0, 1}

\* The logits of a query, by pattern: 0 favours class 0, 1 the last channel.
QueryLogits(pattern, channels) ==
    [c \in 1..channels |-> IF pattern = 0 THEN (IF c = 1 THEN 1 ELSE 0)
                           ELSE (IF c = channels THEN 1 ELSE 0)]

\* The box of query q: centre (q/4, 1/2), size (1/4, 1/2), normalized.
QueryBox(q) == <<Rat(q, 4), Rat(1, 2), Rat(1, 4), Rat(1, 2)>>

\* <<im_shape, scale_factor, pad_shape>> of every image of a batch.
DetrMetas == { << <<RInt(4), RInt(6)>>, <<RInt(1), RInt(1)>>, <<RInt(4), RInt(8)>> >>,
               << <<RInt(3), RInt(5)>>, <<RInt(2), RInt(2)>>, <<RInt(4), RInt(8)>> >> }

\* The head outputs for b images of q queries with `channels` logits each.
DetrInputsOf(b, q, channels) ==
    { [logits |-> [i \in 1..b |-> [k \in 1..q |-> QueryLogits(pat[i][k], channels)]],
       bboxes |-> [i \in 1..b |-> [k \in 1..q |-> QueryBox(k)]],
       im_shape |-> [i \in 1..b |-> m[1]],
       scale_factor |-> [i \in 1..b |-> m[2]],
       pad_shape |-> [i \in 1..b |-> m[3]]] :
        pat \in [1..b -> [1..q -> {0, 1}]], m \in DetrMetas }

DetrInputs(channels) ==
    UNION { DetrInputsOf(b, q, channels) :
               b \in DetrBatchSizes, q \in 1..MaxQueries }

RECURSIVE Pow2(_)
Pow2(l) == IF l <= 0 THEN 1 ELSE 2 * Pow2(l - 1)

RECURSIVE SumPow2(_)
SumPow2(ls) == IF ls = <<>> THEN 0 ELSE Pow2(Head(ls)) + SumPow2(Tail(ls))

\* F.sigmoid(logits) of one query.
Sigmoid(ls) == [c \in 1..Len(ls) |-> Rat(Pow2(ls[c]), 1 + Pow2(ls[c]))]

\* F.softmax(logits)[:, :, :-1] of one query: the last channel is dropped.
SoftmaxDropLast(ls) ==
    [c \in 1..(Len(ls) - 1) |-> Rat(Pow2(ls[c]), SumPow2(ls))]

\* bbox_cxcywh_to_xyxy of .transformers.
bbox_cxcywh_to_xyxy(b) ==
    LET half_w == RDiv(b[3], RInt(2))
        half_h == RDiv(b[4], RInt(2))
    IN  <<RSub(b[1], half_w), RSub(b[2], half_h),
          RAdd(b[1], half_w), RAdd(b[2], half_h)>>

\* out_shape of image i: [w, h, w, h] of the origin shape, or of
\* pad_shape / im_shape * origin_shape.
OutShape(in, i, decode_type) ==
    LET origin == OriginShape(in.im_shape, in.scale_factor)[i]
        hw == IF decode_type = "pad"
              THEN << RMul(RDiv(in.pad_shape[i][1], in.im_shape[i][1]), origin[1]),
                      RMul(RDiv(in.pad_shape[i][2], in.im_shape[i][2]), origin[2]) >>
              ELSE origin
    IN  <<hw[2], hw[1], hw[2], hw[1]>>

MulBox(b, o) == [k \in 1..4 |-> RMul(b[k], o[k])]

\* The index of the largest value of xs outside `taken`, the lowest index
\* among equal values.
ArgMax(xs, taken) ==
    CHOOSE k \in (1..Len(xs)) \ taken :
        \A j \in (1..Len(xs)) \ taken :
            RGt(xs[k], xs[j]) \/ (xs[k] = xs[j] /\ k <= j)

\* paddle.topk(xs, k): the indices of the k largest values, largest first.
RECURSIVE TopKFrom(_, _, _)
TopKFrom(xs, taken, k) ==
    IF k = 0 THEN <<>>
    ELSE LET a == ArgMax(xs, taken)
         IN  <<a>> \o TopKFrom(xs, taken \cup {a}, k - 1)

TopK(xs, k) == TopKFrom(xs, {}, k)

\* logits[:, :Q // (dual_groups + 1), :] when dual_queries is set.
Trim(qs, cfg) ==
    IF cfg.dual_queries
    THEN SubSeq(qs, 1, Len(qs) \div (cfg.dual_groups + 1))
    ELSE qs

\* The softmax branch for one image: the rows <<label, score, box>>.
RowsSoftmax(logits, boxes, cfg) ==
    LET s == [q \in 1..Len(logits) |-> SoftmaxDropLast(logits[q])]
        arg == [q \in 1..Len(logits) |-> ArgMax(s[q], {})]
        scores == [q \in 1..Len(logits) |-> s[q][arg[q]]]
    IN  IF Len(scores) > cfg.num_top_queries
        THEN LET index == TopK(scores, cfg.num_top_queries)
             IN  [raised |-> FALSE,
                  rows |-> [k \in 1..Len(index) |->
                              <<arg[index[k]] - 1, scores[index[k]]>>
                                  \o boxes[index[k]]]]
        ELSE [raised |-> FALSE,
              rows |-> [q \in 1..Len(scores) |->
                          <<arg[q] - 1, scores[q]>> \o boxes[q]]]

\* The focal-loss branch for one image: top-k over the flattened
\* query x class scores; topk fails when k exceeds their number.
RowsFocal(logits, boxes, cfg) ==
    LET flat == Concat([q \in 1..Len(logits) |-> Sigmoid(logits[q])])
    IN  IF cfg.num_top_queries > Len(flat)
        THEN [raised |-> TRUE, rows |-> <<>>]
        ELSE LET index == TopK(flat, cfg.num_top_queries)
             IN  [raised |-> FALSE,
                  rows |-> [k \in 1..Len(index) |->
                              << (index[k] - 1) % cfg.num_classes, flat[index[k]] >>
                                  \o boxes[((index[k] - 1) \div cfg.num_classes) + 1]]]

\* __call__(head_out, im_shape, scale_factor, pad_shape).
DetrCallResult(in, cfg) ==
    LET B == Len(in.logits)
        per == [i \in 1..B |->
                  LET logits == Trim(in.logits[i], cfg)
                      bboxes == Trim(in.bboxes[i], cfg)
                      o == OutShape(in, i, cfg.bbox_decode_type)
                      bbox_pred == [q \in 1..Len(bboxes) |->
                                      MulBox(bbox_cxcywh_to_xyxy(bboxes[q]), o)]
                  IN  IF cfg.use_focal_loss
                      THEN RowsFocal(logits, bbox_pred, cfg)
                      ELSE RowsSoftmax(logits, bbox_pred, cfg)]
    IN  IF \E i \in 1..B : per[i].raised
        THEN [raised |-> TRUE, bbox_pred |-> <<>>, bbox_num |-> <<>>]
        ELSE [raised |-> FALSE,
              bbox_pred |-> Concat([i \in 1..B |-> per[i].rows]),
              bbox_num |-> [i \in 1..B |-> cfg.num_top_queries]]

\* __init__ (bbox_decode_type is asserted to be 'origin' or 'pad').
InitDetr ==
    /\ IdleNms
    /\ IdlePred
    /\ IdleMask
    /\ detr_cfg \in [num_classes : DetrNumClasses,
                     num_top_queries : 1..MaxTopQueries,
                     dual_queries : BOOLEAN,
                     dual_groups : DetrDualGroups,
                     use_focal_loss : BOOLEAN,
                     bbox_decode_type : {"origin", "pad"}]
    /\ detr_op = "none"
    /\ detr_in = NoDetrArgs
    /\ detr_ret = NoDetrRet

\* The head gives num_classes logits per query under focal loss and
\* num_classes + 1 (the last one the background) otherwise.
DetrCall ==
    /\ detr_op = "none"
    /\ \E in \in DetrInputs(IF detr_cfg.use_focal_loss
                            THEN detr_cfg.num_classes
                            ELSE detr_cfg.num_classes + 1) :
          /\ detr_op' = "call"
          /\ detr_in' = in
          /\ detr_ret' = DetrCallResult(in, detr_cfg)
    /\ UNCHANGED <<detr_cfg, nmsVars, predVars, maskVars>>

NextDetr == DetrCall

SpecDetr == InitDetr /\ [][NextDetr]_vars

----------------------------------------------------------------------------
(* MaskPostProcess.__call__ and paste_mask.  mask_out[n] is the n-th mask, *)
(* a Kh x Kw table mask[y][x] (1-based); pixel and sample indices are      *)
(* 0-based as in the source.  Boxes have x1 > x0 and y1 > y0, and every    *)
(* image has at least one detection, as get_pred provides.                 *)

\* Largest mask height and width, largest image height and width.
MaxMaskSize == 2
MaxCanvas == 3
\* The count vectors bbox_num of a call.
MaskBboxNums == { <<1>>, <<2>>, <<1, 1>> }
MaskPatterns == {"ones", "diag"}
MaskBoxKinds == {"full", "unit"}

MaskOf(pattern, Kh, Kw) ==
    [y \in 1..Kh |-> [x \in 1..Kw |->
        IF pattern = "ones" \/ x = y THEN 1 ELSE 0]]

\* A row of bboxes for a detection on an H x W image: the box covers the
\* whole image, (0, 0, W, H), or its first pixel, (0, 0, 1, 1).
MaskBboxRow(kind, H, W) ==
    IF kind = "full" THEN <<0, 1, R0, R0, RInt(W), RInt(H)>>
    ELSE <<0, 1, R0, R0, R1, R1>>

\* The <<H, W>> of the images of a batch: any shape for the first image, a
\* 2 x 3 second image.
MaskSecondShapes == { <<2, 3>> }
MaskShapes(B) ==
    IF B = 1 THEN { <<a>> : a \in (1..MaxCanvas) \X (1..MaxCanvas) }
    ELSE { <<a, b>> : a \in (1..MaxCanvas) \X (1..MaxCanvas),
                      b \in MaskSecondShapes }

\* The arguments of a call for the count vector nums: image i has shape
\* shapes[i]; origin_shape is the per-row table get_origin_shape returns.
MaskInputsOf(nums, Kh, Kw) ==
    LET N == Sum(nums)
        owner(n) == CHOOSE i \in 1..Len(nums) :
                       Sum(SubSeq(nums, 1, i - 1)) < n
                       /\ n <= Sum(SubSeq(nums, 1, i))
    IN  { [mask_out |-> [n \in 1..N |-> MaskOf(d[n][1], Kh, Kw)],
           bboxes |-> [n \in 1..N |->
                          MaskBboxRow(d[n][2], shapes[owner(n)][1],
                                      shapes[owner(n)][2])],
           bbox_num |-> nums,
           origin_shape |-> [n \in 1..N |-> << RInt(shapes[owner(n)][1]),
                                               RInt(shapes[owner(n)][2]) >>]] :
            d \in [1..N -> MaskPatterns \X MaskBoxKinds],
            shapes \in MaskShapes(Len(nums)) }

MaskInputs ==
    UNION { MaskInputsOf(nums, Kh, Kw) :
               nums \in MaskBboxNums, Kh \in 1..MaxMaskSize,
               Kw \in 1..MaxMaskSize }

\* paddle.arange(0, n) + 0.5: the centre of pixel p.
PixelCentreNoOffset(p) == RInt(p)
PixelCentre(p) == RAdd(RInt(p), Rat(1, 2))

\* (img - lo) / (hi - lo) * 2 - 1: the normalized grid coordinate of pixel p.
GridCoord(p, lo, hi) ==
    RSub(RMul(RDiv(RSub(PixelCentre(p), lo), RSub(hi, lo)), RInt(2)), R1)

\* F.grid_sample's source coordinate for align_corners=False:
\* ((g + 1) * size - 1) / 2.
Unnormalize(g, size) ==
    RDiv(RSub(RMul(RAdd(g, R1), RInt(size)), R1), RInt(2))

\* The mask value at 0-based (yy, xx), 0 outside the mask (padding zeros).
MaskAt(mask, yy, xx) ==
    IF yy >= 0 /\ yy < Len(mask) /\ xx >= 0 /\ xx < Len(mask[1])
    THEN mask[yy + 1][xx + 1] ELSE 0

\* F.grid_sample(masks, grid, align_corners=False) at one grid point:
\* bilinear interpolation of the four neighbours of (ix, iy).
GridSample(mask, gx, gy) ==
    LET ix == Unnormalize(gx, Len(mask[1]))
        iy == Unnormalize(gy, Len(mask))
        x_w == RFloor(ix)
        y_n == RFloor(iy)
        tx == RSub(ix, RInt(x_w))
        ty == RSub(iy, RInt(y_n))
        wx(dx) == IF dx = 0 THEN RSub(R1, tx) ELSE tx
        wy(dy) == IF dy = 0 THEN RSub(R1, ty) ELSE ty
        term(dy, dx) == RMul(RInt(MaskAt(mask, y_n + dy, x_w + dx)),
                             RMul(wy(dy), wx(dx)))
    IN  RAdd(RAdd(term(0, 0), term(0, 1)), RAdd(term(1, 0), term(1, 1)))

\* paste_mask for one mask and the box of its row: an im_h x im_w table of
\* sampled values, img[y + 1][x + 1] for pixel (x, y).
paste_mask(mask, row, im_h, im_w) ==
    [y \in 1..im_h |-> [x \in 1..im_w |->
        GridSample(mask, GridCoord(x - 1, row[3], row[5]),
                         GridCoord(y - 1, row[4], row[6]))]]

\* paddle.cast(pred_mask >= self.binary_thresh, 'int32').
Binarize(img, thresh) ==
    [y \in 1..Len(img) |-> [x \in 1..Len(img[y]) |->
        IF RGe(img[y][x], thresh) THEN 1 ELSE 0]]

RECURSIVE MaxOf(_)
MaxOf(ns) == IF Len(ns) = 1 THEN Head(ns) ELSE Max(Head(ns), MaxOf(Tail(ns)))

\* paddle.cast(origin_shape, 'int32'), of non-negative values.
CastShape(origin_shape) ==
    [n \in 1..Len(origin_shape) |->
        <<RFloor(origin_shape[n][1]), RFloor(origin_shape[n][2])>>]

\* The general path: a canvas of -1 of the largest height and width, and per
\* image i the binarized masks of its detections written into [:im_h, :im_w].
MaskCallGeneral(in, cfg) ==
    LET shape == CastShape(in.origin_shape)
        max_h == MaxOf([n \in 1..Len(shape) |-> shape[n][1]])
        max_w == MaxOf([n \in 1..Len(shape) |-> shape[n][2]])
        owner(n) == CHOOSE i \in 1..Len(in.bbox_num) :
                       Sum(SubSeq(in.bbox_num, 1, i - 1)) < n
                       /\ n <= Sum(SubSeq(in.bbox_num, 1, i))
    IN  [n \in 1..Len(in.mask_out) |->
            LET im_h == shape[owner(n)][1]
                im_w == shape[owner(n)][2]
                pred_mask == Binarize(paste_mask(in.mask_out[n], in.bboxes[n],
                                                 im_h, im_w),
                                      cfg.binary_thresh)
            IN  [y \in 1..max_h |-> [x \in 1..max_w |->
                    IF y <= im_h /\ x <= im_w THEN pred_mask[y][x] ELSE -1]]]

\* The export path: every mask pasted on the shape of row 0.
MaskCallExport(in, cfg) ==
    LET shape == CastShape(in.origin_shape)
        h == shape[1][1]
        w == shape[1][2]
    IN  [n \in 1..Len(in.mask_out) |->
            Binarize(paste_mask(in.mask_out[n], in.bboxes[n], h, w),
                     cfg.binary_thresh)]

\* __init__: binary_thresh (0.5 by default) and export_onnx.
MaskThresholds == { <<1, 2>> }

InitMask ==
    /\ IdleNms
    /\ IdlePred
    /\ IdleDetr
    /\ mask_cfg \in [binary_thresh : MaskThresholds, export_onnx : BOOLEAN]
    /\ mask_op = "none"
    /\ mask_in = NoMaskArgs
    /\ mask_ret = <<>>

\* __call__(mask_out, bboxes, bbox_num, origin_shape).  The export path is
\* for one image.
MaskCall ==
    /\ mask_op = "none"
    /\ \E in \in MaskInputs :
          /\ mask_cfg.export_onnx => Len(in.bbox_num) = 1
          /\ mask_op' = "call"
          /\ mask_in' = in
          /\ mask_ret' = IF mask_cfg.export_onnx
                         THEN MaskCallExport(in, mask_cfg)
                         ELSE MaskCallGeneral(in, mask_cfg)
    /\ UNCHANGED <<mask_cfg, nmsVars, predVars, detrVars>>

NextMask == MaskCall

SpecMask == InitMask /\ [][NextMask]_vars

----------------------------------------------------------------------------
(* nms and multiclass_nms.                                                 *)

\* Largest number of rows of an input table.
MaxDets == 3

\* The <<score, x1, y1, x2, y2>> parts of the rows the tables are built from:
\* integer coordinates with x1 <= x2 and y1 <= y2.  (0,0,3,3), (1,0,4,3) and
\* (2,0,5,3) form a chain: neighbours have iou 3/5 and ios 3/4, the ends iou
\* 1/3 and ios 1/2.  The middle box comes with the lowest and with the
\* highest score, and two rows tie on score 1.
NmsDets == { <<2, 0, 0, 3, 3>>, <<1, 1, 0, 4, 3>>, <<1, 2, 0, 5, 3>>,
             <<3, 1, 0, 4, 3>> }
NmsLabels == {0, 1}
NmsRows == { <<l>> \o d : l \in NmsLabels, d \in NmsDets }
NmsTables == UNION { [1..n -> NmsRows] : n \in 0..MaxDets }
\* 0.6 is the default of both functions.
NmsThresholds == { <<1, 2>>, <<3, 5>> }
NmsMetrics == {"iou", "ios", "giou"}
NmsNumClasses == {1, 2}

DropLabel(row) == SubSeq(row, 2, 6)

\* bboxs[:, 1:].
DropLabels(t) == [k \in 1..Len(t) |-> DropLabel(t[k])]

\* bboxs[idxs, 1:] with idxs = (bboxs[:, 0] == c).
RECURSIVE RowsOfClass(_, _)
RowsOfClass(t, c) ==
    IF t = <<>> THEN <<>>
    ELSE (IF Head(t)[1] = c THEN <<DropLabel(Head(t))>> ELSE <<>>)
         \o RowsOfClass(Tail(t), c)

\* A row <<score, x1, y1, x2, y2>> of dets.
areas(d) == (d[4] - d[2] + 1) * (d[5] - d[3] + 1)

\* w * h of the clamped intersection of rows di and dj.
Inter(di, dj) ==
    LET xx1 == Max(di[2], dj[2])
        yy1 == Max(di[3], dj[3])
        xx2 == Min(di[4], dj[4])
        yy2 == Min(di[5], dj[5])
        w == Max(0, xx2 - xx1 + 1)
        h == Max(0, yy2 - yy1 + 1)
    IN  w * h

\* match_value of rows di and dj under metric "iou" or "ios".
MatchValue(di, dj, metric) ==
    LET inter == Inter(di, dj)
    IN  IF metric = "iou"
        THEN Rat(inter, areas(di) + areas(dj) - inter)
        ELSE Rat(inter, Min(areas(di), areas(dj)))

\* The test that suppresses row j.
IsMatchStrict(value, threshold) == RGt(value, threshold)
IsMatch(value, threshold) == RGe(value, threshold)

\* scores.argsort()[::-1]: a permutation of the indices with the scores in
\* descending order.  numpy's default sort is not stable, so rows with equal
\* scores come in any order.
Orders(dets) ==
    LET n == Len(dets)
    IN  { o \in [1..n -> 1..n] :
            /\ \A a, b \in 1..n : a # b => o[a] # o[b]
            /\ \A a \in 1..n : a < n => dets[o[a]][1] >= dets[o[a + 1]][1] }

\* The inner loop, for _j in range(_i + 1, ndets), with i = order[_i].
\* Returns <<raised, suppressed>>.
RECURSIVE InnerLoop(_, _, _, _, _, _, _)
InnerLoop(dets, order, i, jj, suppressed, threshold, metric) ==
    IF jj > Len(dets) THEN <<FALSE, suppressed>>
    ELSE LET j == order[jj] IN
         IF suppressed[j] = 1
         THEN InnerLoop(dets, order, i, jj + 1, suppressed, threshold, metric)
         ELSE IF metric \notin {"iou", "ios"}
         THEN <<TRUE, suppressed>>
         ELSE IF IsMatch(MatchValue(dets[i], dets[j], metric), threshold)
         THEN InnerLoop(dets, order, i, jj + 1,
                        [suppressed EXCEPT ![j] = 1], threshold, metric)
         ELSE InnerLoop(dets, order, i, jj + 1, suppressed, threshold, metric)

\* The outer loop without its `if suppressed[i] == 1: continue`: a suppressed
\* row still suppresses the rows after it.
RECURSIVE OuterLoopNoSkip(_, _, _, _, _, _)
OuterLoopNoSkip(dets, order, ii, suppressed, threshold, metric) ==
    IF ii > Len(dets) THEN <<FALSE, suppressed>>
    ELSE LET r == InnerLoop(dets, order, order[ii], ii + 1, suppressed,
                            threshold, metric)
         IN  IF r[1] THEN r
             ELSE OuterLoopNoSkip(dets, order, ii + 1, r[2], threshold, metric)

\* The outer loop, for _i in range(ndets).  Returns <<raised, suppressed>>.
RECURSIVE OuterLoop(_, _, _, _, _, _)
OuterLoop(dets, order, ii, suppressed, threshold, metric) ==
    IF ii > Len(dets) THEN <<FALSE, suppressed>>
    ELSE LET i == order[ii] IN
         IF suppressed[i] = 1
         THEN OuterLoop(dets, order, ii + 1, suppressed, threshold, metric)
         ELSE LET r == InnerLoop(dets, order, i, ii + 1, suppressed,
                                 threshold, metric)
              IN  IF r[1] THEN r
                  ELSE OuterLoop(dets, order, ii + 1, r[2], threshold, metric)

\* The indices of the order, best score first, that are not suppressed.
RECURSIVE KeepInScoreOrder(_, _, _)
KeepInScoreOrder(order, suppressed, k) ==
    IF k > Len(order) THEN <<>>
    ELSE (IF suppressed[order[k]] = 0 THEN <<order[k]>> ELSE <<>>)
         \o KeepInScoreOrder(order, suppressed, k + 1)

\* np.where(suppressed == 0)[0]: the indices not suppressed, ascending.
RECURSIVE KeepAscending(_, _)
KeepAscending(suppressed, k) ==
    IF k > Len(suppressed) THEN <<>>
    ELSE (IF suppressed[k] = 0 THEN <<k>> ELSE <<>>)
         \o KeepAscending(suppressed, k + 1)

NmsKeepByScore(order, suppressed) == KeepInScoreOrder(order, suppressed, 1)
NmsKeep(order, suppressed) == KeepAscending(suppressed, 1)

\* nms(dets, match_threshold, match_metric) for one outcome `order` of the
\* sort: [raised, keep, dets].  (np.int of line 435 is numpy's alias of int,
\* present up to numpy 1.23.)
Nms(dets, order, threshold, metric) ==
    IF Len(dets) = 0
    THEN [raised |-> FALSE, keep |-> <<>>, dets |-> <<>>]
    ELSE LET r == OuterLoop(dets, order, 1, [k \in 1..Len(dets) |-> 0],
                            threshold, metric)
             kp == NmsKeep(order, r[2])
         IN  IF r[1]
             THEN [raised |-> TRUE, keep |-> <<>>, dets |-> <<>>]
             ELSE [raised |-> FALSE, keep |-> kp,
                   dets |-> [k \in 1..Len(kp) |-> dets[kp[k]]]]

NmsOutcomes(dets, threshold, metric) ==
    { Nms(dets, o, threshold, metric) : o \in Orders(dets) }

\* multiclass_nms from class c on: the set of possible [raised, boxes], where
\* boxes is the list final_boxes of per-class tables <<c, score, x1, y1, x2, y2>>.
RECURSIVE MulticlassFrom(_, _, _, _, _)
MulticlassFrom(t, c, nc, threshold, metric) ==
    IF c >= nc THEN { [raised |-> FALSE, boxes |-> <<>>] }
    ELSE LET sel == RowsOfClass(t, c)
             rest == MulticlassFrom(t, c + 1, nc, threshold, metric)
         IN  IF sel = <<>> THEN rest
             ELSE UNION { IF r.raised
                          THEN { [raised |-> TRUE, boxes |-> <<>>] }
                          ELSE { IF s.raised THEN s
                                 ELSE [raised |-> FALSE,
                                       boxes |-> << [k \in 1..Len(r.dets) |->
                                                       <<c>> \o r.dets[k]] >>
                                                 \o s.boxes] : s \in rest }
                          : r \in NmsOutcomes(sel, threshold, metric) }

multiclass_nms(t, nc, threshold, metric) ==
    MulticlassFrom(t, 0, nc, threshold, metric)

InitNms ==
    /\ IdlePred
    /\ IdleDetr
    /\ IdleMask
    /\ bboxs \in NmsTables
    /\ nms_op = "none"
    /\ match_threshold = <<0, 1>>
    /\ match_metric = ""
    /\ num_classes = 0
    /\ nms_raised = FALSE
    /\ keep = <<>>
    /\ dets_out = <<>>
    /\ final_boxes = <<>>

\* A call nms(bboxs[:, 1:], threshold, metric).
CallNms ==
    /\ nms_op = "none"
    /\ \E th \in NmsThresholds, m \in NmsMetrics :
         \E r \in NmsOutcomes(DropLabels(bboxs), th, m) :
            /\ nms_op' = "nms"
            /\ match_threshold' = th
            /\ match_metric' = m
            /\ nms_raised' = r.raised
            /\ keep' = r.keep
            /\ dets_out' = r.dets
    /\ UNCHANGED <<bboxs, num_classes, final_boxes, predVars, detrVars,
                   maskVars>>

\* A call multiclass_nms(bboxs, nc, threshold, metric).
CallMulticlassNms ==
    /\ nms_op = "none"
    /\ \E th \in NmsThresholds, m \in NmsMetrics, nc \in NmsNumClasses :
         \E r \in multiclass_nms(bboxs, nc, th, m) :
            /\ nms_op' = "multiclass_nms"
            /\ match_threshold' = th
            /\ match_metric' = m
            /\ num_classes' = nc
            /\ nms_raised' = r.raised
            /\ final_boxes' = r.boxes
    /\ UNCHANGED <<bboxs, keep, dets_out, predVars, detrVars, maskVars>>

NextNms == CallNms \/ CallMulticlassNms

SpecNms == InitNms /\ [][NextNms]_vars

----------------------------------------------------------------------------
(* Claims about nms and multiclass_nms, checked under SpecNms.             *)

\* No two rows of table t (rows <<score, x1, y1, x2, y2>>) match.
NoPairMatches(t, metric, threshold) ==
    \A a, b \in 1..Len(t) :
        a < b => RLt(MatchValue(t[a], t[b], metric), threshold)

\* C1: under metric 'iou' or 'ios', no two rows returned by nms, and no two
\* rows of one class returned by multiclass_nms, have a match_value >= the
\* threshold.
C1_NoTwoSurvivorsMatch ==
    /\ (nms_op = "nms" /\ ~nms_raised /\ match_metric \in {"iou", "ios"})
          => NoPairMatches(dets_out, match_metric, match_threshold)
    /\ (nms_op = "multiclass_nms" /\ ~nms_raised
            /\ match_metric \in {"iou", "ios"})
          => \A c \in 1..Len(final_boxes) :
                NoPairMatches(DropLabels(final_boxes[c]), match_metric,
                              match_threshold)

\* C1 witness: a call of nms under 'iou' that suppressed a row and returned
\* two rows that overlap.
C1_Witness ==
    /\ nms_op = "nms" /\ ~nms_raised /\ match_metric = "iou"
    /\ Len(dets_out) = 2 /\ Len(bboxs) = 3
    /\ Inter(dets_out[1], dets_out[2]) > 0

\* C2: the rows nms returns are the input rows at ascending input positions,
\* each unmodified.
C2_SurvivorsInIndexOrder ==
    (nms_op = "nms" /\ ~nms_raised) =>
        /\ Len(dets_out) = Len(keep)
        /\ \A k \in 1..Len(keep) :
              /\ keep[k] \in 1..Len(bboxs)
              /\ dets_out[k] = DropLabel(bboxs[keep[k]])
              /\ k < Len(keep) => keep[k] < keep[k + 1]

\* C2 witness: nms returned two rows, the lower-scored one first, after
\* suppressing a row.
C2_Witness ==
    /\ nms_op = "nms" /\ ~nms_raised
    /\ Len(dets_out) = 2 /\ Len(bboxs) = 3
    /\ dets_out[1][1] < dets_out[2][1]

\* C3: nms with a metric other than 'iou' or 'ios' ends in an error for
\* every non-empty input table.
C3_UnknownMetricRaises ==
    (nms_op = "nms" /\ match_metric \notin {"iou", "ios"} /\ Len(bboxs) >= 1)
        => nms_raised

\* The indices a sequence of indices holds.
IndexSet(s) == { s[k] : k \in 1..Len(s) }

\* The rows multiclass_nms returned, over all classes.
FinalRows == Concat(final_boxes)

\* Row k of bboxs is among the rows multiclass_nms returned.
InFinal(k) == \E n \in 1..Len(FinalRows) : FinalRows[n] = bboxs[k]

\* Row w of bboxs may stand for the loss of row k: its score is at least as
\* high and the two boxes match at or above the call's threshold.
Covers(w, k) ==
    /\ match_metric \in {"iou", "ios"}
    /\ bboxs[w][2] >= bboxs[k][2]
    /\ RGe(MatchValue(DropLabel(bboxs[w]), DropLabel(bboxs[k]), match_metric),
           match_threshold)

\* The rows of bboxs with label c.
ClassIndices(c) == { k \in 1..Len(bboxs) : bboxs[k][1] = c }

\* C11, for nms (whose rows carry no label: one class): a row that nms does
\* not return is covered by a row it returns, and a row of highest score is
\* returned.
C11_NmsPart ==
    (nms_op = "nms" /\ ~nms_raised) =>
        /\ \A k \in 1..Len(bboxs) :
              k \notin IndexSet(keep) =>
                  \E w \in IndexSet(keep) : Covers(w, k)
        /\ Len(bboxs) >= 1 =>
              \E w \in IndexSet(keep) :
                  \A k \in 1..Len(bboxs) : bboxs[w][2] >= bboxs[k][2]

\* C11, for multiclass_nms: a row with a label in 0..num_classes-1 that is
\* absent from the output is covered by a row of its own label that is in the
\* output; a row of highest score of each such class is in the output; and
\* every row of the output is an input row with its own label.
C11_MulticlassPart ==
    (nms_op = "multiclass_nms" /\ ~nms_raised) =>
        /\ \A c \in 0..(num_classes - 1) :
              /\ \A k \in ClassIndices(c) :
                    ~InFinal(k) =>
                        \E w \in ClassIndices(c) : InFinal(w) /\ Covers(w, k)
              /\ ClassIndices(c) # {} =>
                    \E w \in ClassIndices(c) :
                        /\ InFinal(w)
                        /\ \A k \in ClassIndices(c) : bboxs[w][2] >= bboxs[k][2]
        /\ \A n \in 1..Len(FinalRows) :
              /\ FinalRows[n][1] \in 0..(num_classes - 1)
              /\ \E k \in 1..Len(bboxs) : bboxs[k] = FinalRows[n]

\* C11: multiclass_nms and nms never drop a row without a surviving witness
\* of its own class: a missing row with a label in 0..num_classes-1 has a
\* row of the same label in the output with a score >= its score and a
\* match_value >= the threshold with it.  A highest-scoring row of each class
\* survives, and rows of different labels never suppress one another.
C11_DroppedRowHasSameClassWitness == C11_NmsPart /\ C11_MulticlassPart

\* C11 witness: multiclass_nms over two classes returned a row of label 0 and
\* a row of label 1 with the same box, and dropped a third row.
C11_Witness ==
    /\ nms_op = "multiclass_nms" /\ ~nms_raised /\ num_classes = 2
    /\ Len(bboxs) = 3 /\ Len(FinalRows) = 2
    /\ \E a, b \in 1..Len(bboxs) :
          /\ bboxs[a][1] = 0 /\ bboxs[b][1] = 1
          /\ SubSeq(bboxs[a], 3, 6) = SubSeq(bboxs[b], 3, 6)
          /\ InFinal(a) /\ InFinal(b)
    /\ \E k \in 1..Len(bboxs) : ~InFinal(k)

----------------------------------------------------------------------------
(* Claims about BBoxPostProcess, checked under SpecPred and SpecCalls.     *)

\* The first row (0-based offset) of image i in a table with these counts.
StartOf(counts, i) == Sum(SubSeq(counts, 1, i - 1))

\* The image that owns row k of a table with these counts.
OwnerOf(counts, k) ==
    CHOOSE i \in 1..Len(counts) :
        StartOf(counts, i) < k /\ k <= StartOf(counts, i) + counts[i]

\* floor(im_shape / scale_factor + 0.5) of image i of the last get_pred
\* call, as <<h, w>>: x -> floor(x + 1/2) is floor((2x + 1) / 2).
OriginOf(i) ==
    LET h == RDiv(pred_in.im_shape[i][1], pred_in.scale_factor[i][1])
        w == RDiv(pred_in.im_shape[i][2], pred_in.scale_factor[i][2])
    IN  << RInt((2 * h[1] + h[2]) \div (2 * h[2])),
           RInt((2 * w[1] + w[2]) \div (2 * w[2])) >>

GetPredDone == pred_in # NoArgs

\* C4: outside bypass mode every row of pred_result lies within the origin
\* shape of its image, 0 <= x1 <= x2 <= origin_w and 0 <= y1 <= y2 <=
\* origin_h, or has label -1.
C4_BoxWithinOriginOrInvalid ==
    (GetPredDone /\ ~export_eb) =>
        \A k \in 1..Len(pred_ret.pred_result) :
            LET row == pred_ret.pred_result[k]
                o == OriginOf(OwnerOf(pred_ret.bbox_num, k))
            IN  \/ row[1] = -1
                \/ /\ RLe(R0, row[3]) /\ RLe(row[3], row[5]) /\ RLe(row[5], o[2])
                   /\ RLe(R0, row[4]) /\ RLe(row[4], row[6]) /\ RLe(row[6], o[1])

\* C4 witness: a two-image call whose result holds a row that was clipped at
\* both ends and kept its label, and a row marked -1.
C4_Witness ==
    /\ GetPredDone /\ ~export_eb /\ ~export_onnx
    /\ Len(pred_in.bbox_num) = 2
    /\ \E k \in 1..Len(pred_ret.pred_result) :
          /\ pred_ret.pred_result[k][1] = 1
          /\ pred_ret.pred_result[k][3] = R0
          /\ pred_ret.pred_result[k][3] # pred_ret.bboxes[k][3]
          /\ pred_ret.pred_result[k][5] # pred_ret.bboxes[k][5]
    /\ \E k \in 1..Len(pred_ret.pred_result) : pred_ret.pred_result[k][1] = -1

GeneralDone == GetPredDone /\ ~export_eb /\ ~export_onnx

\* C5: the batch-packing loop returns counts that sum to the number of rows;
\* an image with count 0 gets one row and count 1; an image with count n > 0
\* keeps its own n rows, in order, as a contiguous range.
C5_PackingKeepsRanges ==
    GeneralDone =>
        LET cin == pred_in.bbox_num
            cout == pred_ret.bbox_num
        IN  /\ Len(cout) = Len(cin)
            /\ Sum(cout) = Len(pred_ret.bboxes)
            /\ \A i \in 1..Len(cin) :
                  /\ cin[i] = 0 => cout[i] = 1
                  /\ cin[i] > 0 =>
                       /\ cout[i] = cin[i]
                       /\ \A k \in 1..cin[i] :
                             pred_ret.bboxes[StartOf(cout, i) + k]
                                 = pred_in.bboxes[StartOf(cin, i) + k]

\* C5 witness: an empty image followed by an image with two different rows.
C5_Witness ==
    /\ GeneralDone
    /\ pred_in.bbox_num = <<0, 2>>
    /\ pred_in.bboxes[1] # pred_in.bboxes[2]
    /\ Len(pred_ret.bboxes) = 3

\* C6 as stated: the row substituted for an image with zero detections is
\* label 0, score 1, box (0,0,0,0).
C6_SentinelScoreOneBoxZero ==
    GeneralDone =>
        \A i \in 1..Len(pred_in.bbox_num) :
            pred_in.bbox_num[i] = 0 =>
                pred_ret.bboxes[StartOf(pred_ret.bbox_num, i) + 1]
                    = <<0, 1, R0, R0, R0, R0>>

\* C6 amended: the row substituted for an image with zero detections is
\* label 0, score 0, box (0,0,1,1), in the layout [label, score, x1, y1, x2, y2].
C6_SentinelScoreZeroBoxUnit ==
    GeneralDone =>
        \A i \in 1..Len(pred_in.bbox_num) :
            pred_in.bbox_num[i] = 0 =>
                pred_ret.bboxes[StartOf(pred_ret.bbox_num, i) + 1]
                    = <<0, 0, R0, R0, R1, R1>>

\* C6 witness: a call whose second image is empty and whose first is not.
C6_Witness ==
    /\ GeneralDone
    /\ pred_in.bbox_num = <<1, 0>>
    /\ Len(pred_ret.bboxes) = 2

ExportDone == GetPredDone /\ ~export_eb /\ export_onnx

\* C8 as stated: for one image and any detection count, the export path
\* returns the pred_result rows and the count of the general path.
C8_ExportEqualsGeneral ==
    ExportDone =>
        LET g == GetPredPath(pred_in, FALSE)
        IN  /\ pred_ret.pred_result = g.pred_result
            /\ pred_ret.bbox_num = g.bbox_num

\* C8 amended: for one image with at least one detection, the export path
\* returns the pred_result rows and the count of the general path.
C8_ExportEqualsGeneralNonEmpty ==
    (ExportDone /\ pred_in.bbox_num[1] >= 1) =>
        LET g == GetPredPath(pred_in, FALSE)
        IN  /\ pred_ret.pred_result = g.pred_result
            /\ pred_ret.bbox_num = g.bbox_num

\* C8 witness: an export-path call on two detections with unequal scale
\* factors, one of which was marked -1.
C8_Witness ==
    /\ ExportDone
    /\ pred_in.bbox_num = <<2>>
    /\ pred_in.scale_factor[1][1] # pred_in.scale_factor[1][2]
    /\ pred_ret.pred_result[1][1] = 1
    /\ pred_ret.pred_result[2][1] = -1

\* C10: in any mode, get_origin_shape after a get_pred call does not fail
\* and returns one row per row of the prediction table that call returned,
\* each the origin shape of the image owning the row.
C10_OriginShapeOfLastCall ==
    (GetPredDone /\ pred_op = "get_origin_shape") =>
        /\ ~origin_raised
        /\ Len(origin_ret) = Len(pred_ret.pred_result)
        /\ \A k \in 1..Len(origin_ret) :
              origin_ret[k] = OriginOf(OwnerOf(pred_ret.bbox_num, k))

----------------------------------------------------------------------------
(* Claims about DETRPostProcess, checked under SpecDetr.                   *)

\* C7: __call__ returns, for every batch size, query count, num_classes and
\* scoring mode, a table of exactly B * K rows, K = num_top_queries, with a
\* count vector of B entries all equal to K.
C7_ExactlyKRowsPerImage ==
    detr_op = "call" =>
        LET B == Len(detr_in.logits)
            K == detr_cfg.num_top_queries
        IN  /\ ~detr_ret.raised
            /\ Len(detr_ret.bbox_pred) = B * K
            /\ detr_ret.bbox_num = [i \in 1..B |-> K]

----------------------------------------------------------------------------
(* Claims about MaskPostProcess and paste_mask, checked under SpecMask.    *)

\* The image (1-based) of mask n of the call made.
MaskOwner(n) ==
    CHOOSE i \in 1..Len(mask_in.bbox_num) :
        StartOf(mask_in.bbox_num, i) < n
        /\ n <= StartOf(mask_in.bbox_num, i) + mask_in.bbox_num[i]

\* The <<H, W>> of the region mask n is pasted on: the shape in row i of
\* origin_shape for image i, row 0's in the export path.
MaskRegion(n) ==
    LET r == IF mask_cfg.export_onnx THEN 1 ELSE MaskOwner(n)
    IN  <<mask_in.origin_shape[r][1][1], mask_in.origin_shape[r][2][1]>>

\* Mask n is all ones and its box is the whole region, (0, 0, W, H).
OnesOnFullCanvas(n) ==
    /\ \A y \in 1..Len(mask_in.mask_out[n]) :
          \A x \in 1..Len(mask_in.mask_out[n][y]) : mask_in.mask_out[n][y][x] = 1
    /\ SubSeq(mask_in.bboxes[n], 3, 6)
          = <<R0, R0, RInt(MaskRegion(n)[2]), RInt(MaskRegion(n)[1])>>

\* The sample point of 0-based pixel p of `size` pixels lies within the
\* centres 0 .. K - 1 of the mask's K samples: 0 <= (p + 1/2) * K / size
\* - 1/2 <= K - 1, in integers.
SampleInside(p, size, K) ==
    /\ (2 * p + 1) * K >= size
    /\ (2 * p + 1) * K <= (2 * K - 1) * size

\* C9 as stated: a mask of ones pasted with the box (0, 0, W, H) and
\* binarized at 0.5 gives 1 at every pixel of the H x W region.
C9_AllOnesPastesAllForeground ==
    (mask_op = "call" /\ mask_cfg.binary_thresh = <<1, 2>>) =>
        \A n \in 1..Len(mask_ret) :
            OnesOnFullCanvas(n) =>
                \A y \in 1..MaskRegion(n)[1] : \A x \in 1..MaskRegion(n)[2] :
                    mask_ret[n][y][x] = 1

\* C9 amended: such a paste gives 1 at every pixel whose sample point lies
\* within the mask's sample centres along at least one axis, hence at every
\* pixel when Kh >= H and Kw >= W; the other pixels, near the corners, get 1
\* only when their two edge weights multiply to at least 0.5.
C9_AllOnesPastesForegroundOffCorners ==
    (mask_op = "call" /\ mask_cfg.binary_thresh = <<1, 2>>) =>
        \A n \in 1..Len(mask_ret) :
            OnesOnFullCanvas(n) =>
                LET H == MaskRegion(n)[1]
                    W == MaskRegion(n)[2]
                    Kh == Len(mask_in.mask_out[n])
                    Kw == Len(mask_in.mask_out[n][1])
                IN  /\ \A y \in 1..H : \A x \in 1..W :
                          (SampleInside(x - 1, W, Kw) \/ SampleInside(y - 1, H, Kh))
                              => mask_ret[n][y][x] = 1
                    /\ (Kh >= H /\ Kw >= W) =>
                          \A y \in 1..H : \A x \in 1..W : mask_ret[n][y][x] = 1

\* C9 witness: a 1 x 1 mask of ones pasted over a whole 3 x 3 image: the
\* middle row and column are foreground, the corner is not.
C9_Witness ==
    /\ mask_op = "call" /\ ~mask_cfg.export_onnx
    /\ mask_in.bbox_num = <<1>>
    /\ OnesOnFullCanvas(1)
    /\ MaskRegion(1) = <<3, 3>>
    /\ Len(mask_in.mask_out[1]) = 1 /\ Len(mask_in.mask_out[1][1]) = 1
    /\ mask_ret[1][1][2] = 1 /\ mask_ret[1][2][1] = 1 /\ mask_ret[1][2][2] = 1
    /\ mask_ret[1][1][1] = 0

====
